---- MODULE Spec2Model ----
(***************************************************************************)
(* Duplicate-counting prevention tracker of the people counter             *)
(* (python-algorithm/people_counter_api.py, as listed in the tracker       *)
(* documentation): the counting branch ("Step 3"), the cleanup of          *)
(* tracked_people_gender ("Step 5") and the bounding-box status ("Step 4").*)
(* Further down: registration, login and approval of the web application   *)
(* (src/contexts/AuthContext.tsx, the Supabase migrations, the admin pages).*)
(***************************************************************************)
EXTENDS Integers, FiniteSets, Sequences, TLC

\* ---------------------------------------------------------------- bounds
\* number of person IDs the upstream tracker hands out (ID0 .. ID<NumIds-1>)
NumIds == 2
\* frames of the session that are modelled (frame_count runs 1 .. MaxFrame)
MaxFrame == 2
\* resolution of the confidence score: the integer c stands for c / ConfScale
ConfScale == 1
\* number of per-person passes that may run at the same time when the
\* classification of one frame is parallelised
NumWorkers == 2
\* number of people who may register with the web application
NumUsers == 2

\* ---------------------------------------------------------------- inputs
\* person IDs "ID0", "ID1", ... : the integer n stands for the string "ID<n>"
Identities == 0 .. (NumIds - 1)
NoId == -1

\* Python None, as the value of person_gender when no face / no usable
\* classification was produced for the person in this frame
None == "~None"
NoIdx == -1

\* what the classifier hands to the counting branch: the label person_gender
\* and the class index gender_idx it was derived from.  Index 1 is MALE,
\* index 0 is FEMALE; any other index carries a label that is neither.
ClassifierResults ==
    { [person_gender |-> None,      gender_idx |-> NoIdx],
      [person_gender |-> "FEMALE",  gender_idx |-> 0],
      [person_gender |-> "MALE",    gender_idx |-> 1],
      [person_gender |-> "UNKNOWN", gender_idx |-> 2] }

\* confidence scores offered by the classifier, on either side of the upper
\* limit of [0,1]: 1.0 and the first score above it (the code never branches on
\* the score)
Confidences == {ConfScale, ConfScale + 1}

\* ----------------------------------------------------------------- state
VARIABLES
    counted_person_ids,     \* set of person IDs already counted
    tracked_people_gender,  \* dict: person ID -> gender record
    male_count,
    female_count,
    count_p,                \* total count
    frame_count,            \* number of the frame being processed
    credits,                \* history: per ID, how often the counting branch ran
    last,                   \* history: the most recent call and its arguments
    workers,                \* per worker: the statement it is at and its arguments
    subject_id,             \* the ID update_tracking gives the followed person now
    lastKey,                \* update_tracking: number of the next new ID
    subject_log,            \* history: the IDs that person was given, times counted
    first_created,          \* history: per ID, the frame its dict entry was first written
    auth_users,             \* rows of auth.users (by user id)
    profiles,               \* rows of public.profiles, by user_id
    user_roles,             \* rows of public.user_roles, by user_id
    session,                \* the Supabase session held by the browser client
    authState,              \* AuthProvider: { user, isAuthenticated, isLoading }
    ret,                    \* history: the call just made and what it returned
    first_category,         \* history: per ID, the class index of its first usable result
    stored,                 \* which storages hold the key datamorphosis_admin_user
    calls,                  \* per handler of AuthProvider: the await it is at
    closure,                \* authState.user as captured by the rendered components
    pendingUsers,           \* AdminRequests: the rows shown
    processingId,           \* AdminRequests: profile id of the row being processed
    requests,               \* AdminRequests: the approve / reject calls at an await
    fetching                \* AdminRequests: a fetchPendingUsers call is under way

trackerVars == << counted_person_ids, tracked_people_gender, male_count,
                  female_count, count_p, frame_count, credits, last >>

upstreamVars == << subject_id, lastKey, subject_log, first_created >>

authVars == << auth_users, profiles, user_roles, session, authState, ret >>

sessionVars == << stored, calls, closure >>

requestVars == << pendingUsers, processingId, requests, fetching >>

vars == << trackerVars, workers, upstreamVars, authVars, first_category, sessionVars,
          requestVars >>

tracker == << counted_person_ids, tracked_people_gender, male_count,
              female_count, count_p >>

counters == << male_count, female_count, count_p >>

\* truth value of a Python string-or-None in a condition
Truthy(v) == v # None /\ v # ""

\* float(confidence): the score c / ConfScale is kept as it is, in or out of
\* [0,1]; float() neither clamps nor rejects
Float(c) == c

\* the history record of a call: which operation, for which person, with which
\* label, with which set of current IDs; whether the person was counted and had
\* a dict entry when the call was made; the counted set and the counts as they
\* were then; and the dict keys the call had to remove
LastCall(op, id, r, cur) ==
    [ op |-> op, id |-> id,
      person_gender |-> r.person_gender, gender_idx |-> r.gender_idx,
      current |-> cur,
      wasCounted |-> id \in counted_person_ids,
      hadRecord |-> id \in DOMAIN tracked_people_gender,
      preCounted |-> counted_person_ids,
      preCounters |-> counters,
      absent |-> IF op = "reconcileActive"
                 THEN (DOMAIN tracked_people_gender) \ cur ELSE {} ]

NoResult == [person_gender |-> None, gender_idx |-> NoIdx]

\* the workers that may run the per-person code at the same time

Workers == 1 .. NumWorkers

\* a worker that is running no per-person pass
IdleWorker == [ pc |-> "idle", id_obj |-> NoId, person_gender |-> None,
                gender_idx |-> NoIdx, confidence |-> ConfScale ]

\* user ids: the people who may register; 'admin-demo' is the built-in admin
Users == 1 .. NumUsers
NoUser == 0
AdminDemo == -1

\* CREATE TYPE app_role AS ENUM ('admin', 'employee', 'customer')
Roles == {"admin", "employee", "customer"}
NoRole == "~none"

\* a profiles row: absent, or present with its is_approved column
NoProfile == [present |-> FALSE, is_approved |-> FALSE]

\* the User object of the auth state; null is NullUser
NullUser == [id |-> NoUser, role |-> NoRole]

\* no call is waiting for its result to be taken
NoRet == [op |-> "none", user |-> NoUser, role |-> NoRole, result |-> FALSE,
          calls |-> {}]

\* localStorage / sessionStorage: whether the key datamorphosis_admin_user is set
NoneStored == [local |-> FALSE, session |-> FALSE]

\* the asynchronous functions of AuthProvider; the effect that runs
\* initializeAuth is started by the mount
Handlers == {"initializeAuth", "login", "register", "logout", "listener"}

\* a handler that is not running; the effect that has yet to call initializeAuth
Idle == [pc |-> "idle", user |-> NoUser, rememberMe |-> FALSE]

Mounting == [pc |-> "start", user |-> NoUser, rememberMe |-> FALSE]

Init ==
    /\ counted_person_ids = {}
    /\ tracked_people_gender = << >>
    /\ male_count = 0
    /\ female_count = 0
    /\ count_p = 0
    /\ frame_count = 1
    /\ credits = [i \in Identities |-> 0]
    /\ last = [ op |-> "init", id |-> NoId, person_gender |-> None,
                gender_idx |-> NoIdx, current |-> {},
                wasCounted |-> FALSE, hadRecord |-> FALSE,
                preCounted |-> {}, preCounters |-> << 0, 0, 0 >>,
                absent |-> {} ]
    /\ workers = [w \in Workers |-> IdleWorker]
    /\ subject_id = NoId
    /\ lastKey = 0
    /\ subject_log = [ids |-> {}, credits |-> 0]
    /\ first_created = [i \in Identities |-> 0]
    /\ auth_users = {}
    /\ profiles = [u \in Users |-> NoProfile]
    /\ user_roles = [u \in Users |-> NoRole]
    /\ session = NoUser
    /\ authState = [user |-> NullUser, isAuthenticated |-> FALSE, isLoading |-> TRUE]
    /\ ret = NoRet
    /\ first_category = [i \in Identities |-> NoIdx]
    /\ stored = NoneStored
    /\ calls = [h \in Handlers |-> IF h = "initializeAuth" THEN Mounting ELSE Idle]
    /\ closure = NullUser
    /\ pendingUsers = {}
    /\ processingId = NoUser
    /\ requests = {}
    /\ fetching = TRUE

\* ---------------------------------------------------------------- status
\* variant: the status is read from the dict of currently tracked people
isCounted_FromRecord(id_obj) == id_obj \in DOMAIN tracked_people_gender

\* if id_obj in counted_person_ids: green box, "already counted"
isCounted(id_obj) == id_obj \in counted_person_ids

status(id_obj) == IF isCounted(id_obj) THEN "counted" ELSE "uncounted"

\* ------------------------------------------------------- counting branch
\* variant: the membership test on counted_person_ids is missing
ShouldCount_NoMembership(id_obj, person_gender) ==
    Truthy(person_gender)

\* variant: the test of person_gender is missing
ShouldCount_NoGender(id_obj, person_gender) ==
    id_obj \notin counted_person_ids

\* variant: tests that the set is empty, not that id_obj is missing from it
ShouldCount_EmptySet(id_obj, person_gender) ==
    counted_person_ids = {} /\ Truthy(person_gender)

\* if id_obj not in counted_person_ids and person_gender:
ShouldCount(id_obj, person_gender) ==
    id_obj \notin counted_person_ids /\ Truthy(person_gender)

\* if gender_idx == 1: male_count += 1
MaleAfter(gender_idx) ==
    IF gender_idx = 1 THEN male_count + 1 ELSE male_count

\* elif gender_idx == 0: female_count += 1
FemaleAfter(gender_idx) ==
    IF gender_idx # 1 /\ gender_idx = 0 THEN female_count + 1 ELSE female_count

\* variant: the entry is written with 'counted': False
GenderRecord_NotCounted(person_gender, confidence, fc) ==
    [ gender |-> person_gender, confidence |-> Float(confidence),
      counted |-> FALSE, first_seen_frame |-> fc ]

\* the dict entry written for a counted person
GenderRecord(person_gender, confidence, fc) ==
    [ gender |-> person_gender, confidence |-> Float(confidence),
      counted |-> TRUE, first_seen_frame |-> fc ]

\* tracked_people_gender[id_obj] = rec
DictSet(d, k, rec) ==
    [ x \in (DOMAIN d) \cup {k} |-> IF x = k THEN rec ELSE d[x] ]

\* one pass of the per-person code for person id_obj with classifier output r
\* and score c, in the frame frame_count
Observe(id_obj, r, c) ==
    /\ IF ShouldCount(id_obj, r.person_gender)
       THEN /\ male_count' = MaleAfter(r.gender_idx)
            /\ female_count' = FemaleAfter(r.gender_idx)
            /\ counted_person_ids' = counted_person_ids \cup {id_obj}
            /\ count_p' = count_p + 1
            /\ tracked_people_gender' =
                   DictSet(tracked_people_gender, id_obj,
                           GenderRecord(r.person_gender, c, frame_count))
            /\ credits' = [credits EXCEPT ![id_obj] = @ + 1]
       ELSE /\ UNCHANGED tracker
            /\ UNCHANGED credits
    /\ last' = LastCall("observe", id_obj, r, {})
    /\ UNCHANGED frame_count

\* --------------------------------------------------------------- cleanup
\* variant: "in" for "not in"
IdsToRemove_Inverted(d, current_tracked_ids) ==
    { tracked_id \in DOMAIN d : tracked_id \in current_tracked_ids }

\* ids_to_remove: the keys of tracked_people_gender not in current_tracked_ids
IdsToRemove(d, current_tracked_ids) ==
    { tracked_id \in DOMAIN d : tracked_id \notin current_tracked_ids }

\* del tracked_people_gender[tracked_id] for every tracked_id in ids_to_remove
DictDelAll(d, ids_to_remove) ==
    [ x \in (DOMAIN d) \ ids_to_remove |-> d[x] ]

\* variant: the cleanup also discards the removed IDs from counted_person_ids
ReconcileActive_ForgetsCounted(current_tracked_ids) ==
    /\ tracked_people_gender' =
           DictDelAll(tracked_people_gender,
                      IdsToRemove(tracked_people_gender, current_tracked_ids))
    /\ counted_person_ids' =
           counted_person_ids \ IdsToRemove(tracked_people_gender, current_tracked_ids)
    /\ UNCHANGED << male_count, female_count, count_p >>
    /\ UNCHANGED << credits, frame_count >>
    /\ last' = LastCall("reconcileActive", NoId, NoResult, current_tracked_ids)

\* variant: the cleanup takes the removed people off the total count
ReconcileActive_Uncounts(current_tracked_ids) ==
    /\ tracked_people_gender' =
           DictDelAll(tracked_people_gender,
                      IdsToRemove(tracked_people_gender, current_tracked_ids))
    /\ count_p' = count_p -
           Cardinality(IdsToRemove(tracked_people_gender, current_tracked_ids))
    /\ UNCHANGED << counted_person_ids, male_count, female_count >>
    /\ UNCHANGED << credits, frame_count >>
    /\ last' = LastCall("reconcileActive", NoId, NoResult, current_tracked_ids)

\* the cleanup at the end of a frame, current_tracked_ids = set(centers_old.keys())
ReconcileActive(current_tracked_ids) ==
    /\ tracked_people_gender' =
           DictDelAll(tracked_people_gender,
                      IdsToRemove(tracked_people_gender, current_tracked_ids))
    /\ UNCHANGED << counted_person_ids, male_count, female_count, count_p >>
    /\ UNCHANGED << credits, frame_count >>
    /\ last' = LastCall("reconcileActive", NoId, NoResult, current_tracked_ids)

\* the frame processing loop moves on to the next frame
NextFrame ==
    /\ frame_count < MaxFrame
    /\ frame_count' = frame_count + 1
    /\ UNCHANGED tracker
    /\ UNCHANGED credits
    /\ last' = LastCall("frame", NoId, NoResult, {})

\* ------------------------------------------------------------------ spec
\* history of the frame loop: the class index that came with the first usable
\* classification result of each person ID
NoteCategory(id_obj, r) ==
    first_category' =
        IF first_category[id_obj] = NoIdx /\ Truthy(r.person_gender)
        THEN [first_category EXCEPT ![id_obj] = r.gender_idx]
        ELSE first_category

ObserveStep == \E id_obj \in Identities, r \in ClassifierResults, c \in Confidences :
                   /\ (r.person_gender = None => c = ConfScale)
                   /\ Observe(id_obj, r, c)
                   /\ NoteCategory(id_obj, r)

ReconcileStep == \E S \in SUBSET Identities : ReconcileActive(S)

\* the frame loop as it is written: one thread, one per-person pass at a time
Next ==
    \/ (ObserveStep /\ UNCHANGED << workers, upstreamVars, authVars, sessionVars, requestVars >>)
    \/ (ReconcileStep /\ UNCHANGED << workers, upstreamVars, authVars, first_category, sessionVars, requestVars >>)
    \/ (NextFrame /\ UNCHANGED << workers, upstreamVars, authVars, first_category, sessionVars, requestVars >>)

Spec == Init /\ [][Next]_vars

\* ------------------------------------------- counting branch, by statement
\* The per-person code when several passes run at the same time: each Python
\* statement of the counting branch is one step, and nothing in the branch
\* takes a lock.
SetWorker(w, rec) == workers' = [workers EXCEPT ![w] = rec]

\* a worker starts the per-person code for id_obj with classifier output r, c
WorkerCall(w, id_obj, r, c) ==
    /\ workers[w].pc = "idle"
    /\ SetWorker(w, [ pc |-> "check", id_obj |-> id_obj,
                      person_gender |-> r.person_gender,
                      gender_idx |-> r.gender_idx, confidence |-> c ])
    /\ UNCHANGED << trackerVars, upstreamVars, authVars, first_category, sessionVars, requestVars >>

\* if id_obj not in counted_person_ids and person_gender:
WorkerCheck(w) ==
    /\ workers[w].pc = "check"
    /\ IF ShouldCount(workers[w].id_obj, workers[w].person_gender)
       THEN SetWorker(w, [workers[w] EXCEPT !.pc = "gender"])
       ELSE SetWorker(w, IdleWorker)
    /\ UNCHANGED << trackerVars, upstreamVars, authVars, first_category, sessionVars, requestVars >>

\* if gender_idx == 1: male_count += 1  elif gender_idx == 0: female_count += 1
WorkerCountGender(w) ==
    /\ workers[w].pc = "gender"
    /\ male_count' = MaleAfter(workers[w].gender_idx)
    /\ female_count' = FemaleAfter(workers[w].gender_idx)
    /\ SetWorker(w, [workers[w] EXCEPT !.pc = "add"])
    /\ UNCHANGED << counted_person_ids, tracked_people_gender, count_p,
                    frame_count, credits, last >>
    /\ UNCHANGED << upstreamVars, authVars, first_category, sessionVars, requestVars >>

\* counted_person_ids.add(id_obj)
WorkerAdd(w) ==
    /\ workers[w].pc = "add"
    /\ counted_person_ids' = counted_person_ids \cup {workers[w].id_obj}
    /\ SetWorker(w, [workers[w] EXCEPT !.pc = "total"])
    /\ UNCHANGED << tracked_people_gender, male_count, female_count, count_p,
                    frame_count, credits, last >>
    /\ UNCHANGED << upstreamVars, authVars, first_category, sessionVars, requestVars >>

\* count_p += 1
WorkerCountTotal(w) ==
    /\ workers[w].pc = "total"
    /\ count_p' = count_p + 1
    /\ credits' = [credits EXCEPT ![workers[w].id_obj] = @ + 1]
    /\ SetWorker(w, [workers[w] EXCEPT !.pc = "store"])
    /\ UNCHANGED << counted_person_ids, tracked_people_gender, male_count,
                    female_count, frame_count, last >>
    /\ UNCHANGED << upstreamVars, authVars, first_category, sessionVars, requestVars >>

\* tracked_people_gender[id_obj] = {...}
WorkerStore(w) ==
    /\ workers[w].pc = "store"
    /\ tracked_people_gender' =
           DictSet(tracked_people_gender, workers[w].id_obj,
                   GenderRecord(workers[w].person_gender, workers[w].confidence,
                                frame_count))
    /\ SetWorker(w, IdleWorker)
    /\ UNCHANGED << counted_person_ids, male_count, female_count, count_p,
                    frame_count, credits, last >>
    /\ UNCHANGED << upstreamVars, authVars, first_category, sessionVars, requestVars >>

WorkerCallStep ==
    \E w \in Workers, id_obj \in Identities, r \in ClassifierResults, c \in Confidences :
        /\ (r.person_gender = None => c = ConfScale)
        /\ WorkerCall(w, id_obj, r, c)

NextConcurrent ==
    \/ WorkerCallStep
    \/ \E w \in Workers : WorkerCheck(w)
    \/ \E w \in Workers : WorkerCountGender(w)
    \/ \E w \in Workers : WorkerAdd(w)
    \/ \E w \in Workers : WorkerCountTotal(w)
    \/ \E w \in Workers : WorkerStore(w)

SpecConcurrent == Init /\ [][NextConcurrent]_vars

\* ------------------------------------------------ with the upstream tracker
\* One physical person is followed through a session.  update_tracking gives
\* the person an ID whenever they are detected: the ID of the previously
\* tracked position they match, or else a new one (ID0, ID1, ...).  The
\* classifier is well behaved here: no result, FEMALE or MALE, with score 1.0.
WellFormedResults == { r \in ClassifierResults : r.gender_idx \in {NoIdx, 0, 1} }

\* the person comes into view and matches a previously tracked position of
\* theirs: update_tracking uses the existing ID
AppearMatched ==
    /\ subject_id = NoId
    /\ \E i \in subject_log.ids : subject_id' = i
    /\ UNCHANGED << lastKey, subject_log, first_created >>
    /\ UNCHANGED << trackerVars, workers, authVars, first_category, sessionVars, requestVars >>

\* the person comes into view and matches no tracked position: update_tracking
\* assigns a new ID
AppearNew ==
    /\ subject_id = NoId
    /\ lastKey < NumIds
    /\ subject_id' = lastKey
    /\ lastKey' = lastKey + 1
    /\ subject_log' = [subject_log EXCEPT !.ids = @ \cup {lastKey}]
    /\ UNCHANGED first_created
    /\ UNCHANGED << trackerVars, workers, authVars, first_category, sessionVars, requestVars >>

\* the person leaves the camera's view
Disappear ==
    /\ subject_id # NoId
    /\ subject_id' = NoId
    /\ UNCHANGED << lastKey, subject_log, first_created >>
    /\ UNCHANGED << trackerVars, workers, authVars, first_category, sessionVars, requestVars >>

\* the per-person code runs for the person in view, under the ID they have now
ObserveSubject(r, c) ==
    /\ subject_id # NoId
    /\ Observe(subject_id, r, c)
    /\ subject_log' =
         [subject_log EXCEPT !.credits =
              IF credits'[subject_id] > credits[subject_id] THEN @ + 1 ELSE @]
    /\ first_created' =
         [first_created EXCEPT ![subject_id] =
              IF credits'[subject_id] > credits[subject_id] /\ @ = 0
              THEN frame_count ELSE @]
    /\ UNCHANGED << subject_id, lastKey, workers, authVars, first_category, sessionVars, requestVars >>

\* the IDs update_tracking has handed out so far
IssuedIds == 0 .. (lastKey - 1)

\* the IDs of the people in view
IdsInView == IF subject_id = NoId THEN {} ELSE {subject_id}

\* the cleanup, with current_tracked_ids = set(centers_old.keys()): the ID of
\* the person in view and the IDs of tracks still kept in the history
CleanupSubjects(kept) ==
    /\ kept \subseteq IssuedIds
    /\ ReconcileActive(IdsInView \cup kept)
    /\ UNCHANGED << workers, upstreamVars, authVars, first_category, sessionVars, requestVars >>

ObserveSubjectStep ==
    \E r \in WellFormedResults : ObserveSubject(r, ConfScale)

NextUpstream ==
    \/ AppearMatched
    \/ AppearNew
    \/ Disappear
    \/ ObserveSubjectStep
    \/ \E kept \in SUBSET Identities : CleanupSubjects(kept)
    \/ (NextFrame /\ UNCHANGED << workers, upstreamVars, authVars, first_category, sessionVars, requestVars >>)

SpecUpstream == Init /\ [][NextUpstream]_vars

\* ---------------------------------------------------------- web application
\* SQL: the rows handle_new_user() inserts for a new auth user, whose sign-up
\* metadata carries the role meta_role (NoRole when the key is missing):
\*   user_role := COALESCE((NEW.raw_user_meta_data->>'role')::app_role, 'customer')
NewUserRole(meta_role) ==
    IF meta_role = NoRole THEN "customer" ELSE meta_role

\*   is_approved := CASE WHEN user_role = 'admin' THEN true ELSE false END
NewUserProfile(meta_role) ==
    [present |-> TRUE, is_approved |-> (NewUserRole(meta_role) = "admin")]

\* SQL: create_profile_for_registration(_user_id, ...), SECURITY DEFINER:
\*   INSERT ... VALUES (_user_id, ..., true)
\*   ON CONFLICT (user_id) DO UPDATE SET ..., is_approved = true
create_profile_for_registration(prof, _user_id) ==
    [prof EXCEPT ![_user_id] = [present |-> TRUE, is_approved |-> TRUE]]

\* SQL: create_user_role_for_registration(_user_id, _role), SECURITY DEFINER:
\*   INSERT ... VALUES (_user_id, _role) ON CONFLICT (user_id) DO UPDATE SET role = _role
create_user_role_for_registration(roles, _user_id, _role) ==
    [roles EXCEPT ![_user_id] = _role]

\* GRANT EXECUTE ON FUNCTION ... TO authenticated: the caller holds a session
MayExecute(uid) == uid # NoUser

\* RLS on profiles and user_roles: USING / WITH CHECK (auth.uid() = user_id)
OwnRow(uid, user_id) == uid # NoUser /\ uid = user_id

\* fetchUserProfile(userId), called with the session of uid; ok says whether
\* the two selects came back without an error.  The select list has no
\* is_approved; a missing role row reads as 'customer'.
fetchUserProfile(userId, uid, ok, prof, roles) ==
    IF ok /\ OwnRow(uid, userId) /\ prof[userId].present
    THEN [id |-> userId,
          role |-> IF roles[userId] = NoRole THEN "customer" ELSE roles[userId]]
    ELSE NullUser

\* onAuthStateChange, event SIGNED_IN: the state after the listener ran, given
\* the user its fetchUserProfile returned
SignedIn(st, user) ==
    IF user # NullUser
    THEN [user |-> user, isAuthenticated |-> TRUE, isLoading |-> FALSE]
    ELSE st

\* onAuthStateChange, event SIGNED_OUT; also what logout sets
SignedOut == [user |-> NullUser, isAuthenticated |-> FALSE, isLoading |-> FALSE]

\* variant: the paths that fail leave isLoading as it is
NotLoading_Keeps(st) == st

\* setAuthState(prev => ({ ...prev, isLoading: false }))
NotLoading(st) == [st EXCEPT !.isLoading = FALSE]

\* how the backend answers the requests of one login: signIn, whether
\* signInWithPassword succeeds; fetch, whether the profile selects do
LoginOutcomes ==
    { f \in [signIn : BOOLEAN, fetch : BOOLEAN] : ~ f.signIn => ~ f.fetch }

\* login(credentials) with the built-in admin e-mail and password
LoginAdmin ==
    /\ ret = NoRet
    /\ session' = NoUser
    /\ authState' = [user |-> [id |-> AdminDemo, role |-> "admin"],
                     isAuthenticated |-> TRUE, isLoading |-> FALSE]
    /\ ret' = [op |-> "login", user |-> AdminDemo, role |-> NoRole,
               result |-> TRUE, calls |-> {"signOut"}]
    /\ UNCHANGED << auth_users, profiles, user_roles >>
    /\ UNCHANGED << trackerVars, workers, upstreamVars, first_category, sessionVars, requestVars >>

\* login(credentials) with the e-mail and password of user u
Login(u, f) ==
    /\ ret = NoRet
    /\ LET signedIn == f.signIn /\ u \in auth_users
           user == fetchUserProfile(u, u, f.fetch, profiles, user_roles)
           heard == IF signedIn THEN SignedIn(authState, user) ELSE authState
       IN  /\ session' = IF signedIn THEN u ELSE session
           /\ authState' =
                IF signedIn /\ user # NullUser
                THEN [user |-> user, isAuthenticated |-> TRUE, isLoading |-> FALSE]
                ELSE NotLoading(heard)
           /\ ret' = [op |-> "login", user |-> u, role |-> NoRole,
                      result |-> (signedIn /\ user # NullUser),
                      calls |-> {"signInWithPassword"} \cup
                                (IF signedIn THEN {"select"} ELSE {})]
    /\ UNCHANGED << auth_users, profiles, user_roles >>
    /\ UNCHANGED << trackerVars, workers, upstreamVars, first_category, sessionVars, requestVars >>

\* logout()
Logout ==
    /\ session' = NoUser
    /\ authState' = SignedOut
    /\ UNCHANGED << auth_users, profiles, user_roles, ret >>
    /\ UNCHANGED << trackerVars, workers, upstreamVars, first_category, sessionVars, requestVars >>

\* the page that awaited login or register takes the returned value
TakeResult ==
    /\ ret # NoRet
    /\ ret' = NoRet
    /\ UNCHANGED << auth_users, profiles, user_roles, session, authState >>
    /\ UNCHANGED << trackerVars, workers, upstreamVars, first_category, sessionVars, requestVars >>

\* variant: register accepts every role
RoleAllowed_Any(role) == TRUE

\* register: if (data.role !== 'customer') { ... return false; }
RoleAllowed(role) == role = "customer"

\* how the backend answers the requests of one register call: signUp, whether
\* the sign-up succeeds; hasSession, whether it returns a session (no e-mail
\* confirmation pending); company, whether the company row gets created; rpc,
\* whether the two registration functions can be reached; signIn and fetch as
\* for login.  Answers to requests that are never sent are left FALSE.
RegisterOutcomes ==
    { f \in [signUp : BOOLEAN, hasSession : BOOLEAN, company : BOOLEAN,
             rpc : BOOLEAN, signIn : BOOLEAN, fetch : BOOLEAN] :
        /\ ~ f.signUp => ~ (f.hasSession \/ f.company \/ f.fetch)
        /\ ~ f.company => ~ (f.rpc \/ f.signIn)
        /\ ~ (f.hasSession \/ f.signIn) => ~ f.fetch }

NoAnswers ==
    [signUp |-> FALSE, hasSession |-> FALSE, company |-> FALSE,
     rpc |-> FALSE, signIn |-> FALSE, fetch |-> FALSE]

\* register(data) for the person u with data.role = role
Register(u, role, f) ==
    /\ ret = NoRet
    /\ IF ~ RoleAllowed(role)
       THEN /\ authState' = NotLoading(authState)
            /\ ret' = [op |-> "register", user |-> u, role |-> role,
                       result |-> FALSE, calls |-> {}]
            /\ UNCHANGED << auth_users, profiles, user_roles, session >>
       ELSE LET \* Step 1: supabase.auth.signUp, metadata { full_name, phone }
                signedUp == f.signUp /\ u \notin auth_users
                \* trigger on_auth_user_created -> handle_new_user()
                prof1 == [profiles EXCEPT ![u] = NewUserProfile(NoRole)]
                roles1 == [user_roles EXCEPT ![u] = NewUserRole(NoRole)]
                uid1 == IF f.hasSession THEN u ELSE session
                st1 == IF f.hasSession
                       THEN SignedIn(authState,
                                fetchUserProfile(u, uid1, f.fetch, prof1, roles1))
                       ELSE authState
                \* Step 3 & 4: the two functions, else the direct update/insert
                rpcDone == f.rpc /\ MayExecute(uid1)
                prof2 == IF rpcDone
                         THEN create_profile_for_registration(prof1, u)
                         ELSE prof1
                roles2 == IF rpcDone
                          THEN create_user_role_for_registration(roles1, u, "customer")
                          ELSE roles1
                \* Step 5: signInWithPassword, and the SIGNED_IN listener
                uid2 == IF f.signIn THEN u ELSE uid1
                user == fetchUserProfile(u, uid2, f.fetch, prof2, roles2)
                st2 == IF f.signIn THEN SignedIn(st1, user) ELSE st1
            IN  IF ~ signedUp
                THEN /\ authState' = NotLoading(authState)
                     /\ ret' = [op |-> "register", user |-> u, role |-> role,
                                result |-> FALSE, calls |-> {"signUp"}]
                     /\ UNCHANGED << auth_users, profiles, user_roles, session >>
                ELSE /\ auth_users' = auth_users \cup {u}
                     /\ IF ~ f.company
                        THEN /\ profiles' = prof1
                             /\ user_roles' = roles1
                             /\ session' = uid1
                             /\ authState' = NotLoading(st1)
                             /\ ret' = [op |-> "register", user |-> u,
                                        role |-> role, result |-> FALSE,
                                        calls |-> {"signUp", "company"}]
                        ELSE /\ profiles' = prof2
                             /\ user_roles' = roles2
                             /\ session' = uid2
                             \* Step 6: fetchUserProfile, once more if null
                             /\ authState' =
                                  IF f.signIn /\ user # NullUser
                                  THEN [user |-> user, isAuthenticated |-> TRUE,
                                        isLoading |-> FALSE]
                                  ELSE NotLoading(st2)
                             /\ ret' = [op |-> "register", user |-> u,
                                        role |-> role, result |-> TRUE,
                                        calls |-> {"signUp", "company", "profile",
                                                   "role", "signInWithPassword"}]
    /\ UNCHANGED << trackerVars, workers, upstreamVars, first_category, sessionVars, requestVars >>

\* the admin pages are shown to a signed-in admin
AdminSignedIn == authState.isAuthenticated /\ authState.user.role = "admin"

\* AdminRequests.handleApprove: update({ is_approved: true }); ok says
\* whether the update went through
handleApprove(u, ok) ==
    /\ AdminSignedIn
    /\ profiles[u].present /\ ~ profiles[u].is_approved
    /\ profiles' = IF ok THEN [profiles EXCEPT ![u].is_approved = TRUE]
                   ELSE profiles
    /\ UNCHANGED << auth_users, user_roles, session, authState, ret >>
    /\ UNCHANGED << trackerVars, workers, upstreamVars, first_category, sessionVars, requestVars >>

\* AdminRequests.handleReject: delete the profile, then the role; the second
\* delete is not sent when the first one failed
handleReject(u, okProfile, okRole) ==
    /\ AdminSignedIn
    /\ profiles[u].present /\ ~ profiles[u].is_approved
    /\ profiles' = IF okProfile THEN [profiles EXCEPT ![u] = NoProfile]
                   ELSE profiles
    /\ user_roles' = IF okProfile /\ okRole
                     THEN [user_roles EXCEPT ![u] = NoRole]
                     ELSE user_roles
    /\ UNCHANGED << auth_users, session, authState, ret >>
    /\ UNCHANGED << trackerVars, workers, upstreamVars, first_category, sessionVars, requestVars >>

\* AdminDashboard menu item: update({ is_approved: !customer.is_approved })
toggleApproval(u, ok) ==
    /\ AdminSignedIn
    /\ profiles[u].present
    /\ profiles' = IF ok THEN [profiles EXCEPT ![u].is_approved = ~ @]
                   ELSE profiles
    /\ UNCHANGED << auth_users, user_roles, session, authState, ret >>
    /\ UNCHANGED << trackerVars, workers, upstreamVars, first_category, sessionVars, requestVars >>

\* what a signed-in user may send to the backend with their own session,
\* outside the pages of the application: the two functions granted to
\* 'authenticated', and updates of the two tables under their RLS policies
ApiCall(op) == [op |-> op, user |-> session, role |-> NoRole,
                result |-> TRUE, calls |-> {op}]

\* rpc('create_profile_for_registration', { _user_id: target, ... })
RpcCreateProfile(target) ==
    /\ ret = NoRet
    /\ MayExecute(session)
    /\ target \in auth_users
    /\ profiles' = create_profile_for_registration(profiles, target)
    /\ ret' = ApiCall("rpc_profile")
    /\ UNCHANGED << auth_users, user_roles, session, authState >>
    /\ UNCHANGED << trackerVars, workers, upstreamVars, first_category, sessionVars, requestVars >>

\* rpc('create_user_role_for_registration', { _user_id: target, _role: role })
RpcCreateUserRole(target, role) ==
    /\ ret = NoRet
    /\ MayExecute(session)
    /\ target \in auth_users
    /\ user_roles' = create_user_role_for_registration(user_roles, target, role)
    /\ ret' = ApiCall("rpc_role")
    /\ UNCHANGED << auth_users, profiles, session, authState >>
    /\ UNCHANGED << trackerVars, workers, upstreamVars, first_category, sessionVars, requestVars >>

\* from('profiles').update({ is_approved }).eq('user_id', target)
UpdateProfileRow(target, is_approved) ==
    /\ ret = NoRet
    /\ MayExecute(session)
    /\ profiles' = IF OwnRow(session, target) /\ profiles[target].present
                   THEN [profiles EXCEPT ![target].is_approved = is_approved]
                   ELSE profiles
    /\ ret' = ApiCall("update_profile")
    /\ UNCHANGED << auth_users, user_roles, session, authState >>
    /\ UNCHANGED << trackerVars, workers, upstreamVars, first_category, sessionVars, requestVars >>

\* from('user_roles').update({ role }).eq('user_id', target)
UpdateRoleRow(target, role) ==
    /\ ret = NoRet
    /\ MayExecute(session)
    /\ user_roles' = IF OwnRow(session, target) /\ user_roles[target] # NoRole
                     THEN [user_roles EXCEPT ![target] = role]
                     ELSE user_roles
    /\ ret' = ApiCall("update_role")
    /\ UNCHANGED << auth_users, profiles, session, authState >>
    /\ UNCHANGED << trackerVars, workers, upstreamVars, first_category, sessionVars, requestVars >>

LoginStep == \E u \in Users, f \in LoginOutcomes : Login(u, f)

RegisterStep ==
    \/ \E u \in Users, f \in RegisterOutcomes : Register(u, "customer", f)
    \/ \E u \in Users, role \in Roles \ {"customer"} : Register(u, role, NoAnswers)

AdminStep ==
    \E u \in Users :
        \/ \E ok \in BOOLEAN : handleApprove(u, ok)
        \/ \E ok \in BOOLEAN : toggleApproval(u, ok)
        \/ \E okProfile, okRole \in BOOLEAN : handleReject(u, okProfile, okRole)

\* the roles tried in those requests: the one every user has and the one
\* that opens the admin pages
ApiRoles == {"customer", "admin"}

ApiStep ==
    \E target \in Users :
        \/ RpcCreateProfile(target)
        \/ \E role \in ApiRoles : RpcCreateUserRole(target, role)
        \/ \E b \in BOOLEAN : UpdateProfileRow(target, b)
        \/ \E role \in ApiRoles : UpdateRoleRow(target, role)

NextAuth ==
    \/ LoginAdmin
    \/ LoginStep
    \/ RegisterStep
    \/ Logout
    \/ TakeResult
    \/ AdminStep
    \/ ApiStep

SpecAuth == Init /\ [][NextAuth]_vars

\* ------------------------------------------- AuthProvider, await by await
\* The handlers of AuthProvider as the browser runs them: each one runs up to
\* its next await, and what follows the await runs when the request has come
\* back, with anything else in between.  One run of each handler at a time.
Await(h, pc, u, rememberMe) ==
    calls' = [calls EXCEPT ![h] = [pc |-> pc, user |-> u, rememberMe |-> rememberMe]]

Return(h) == calls' = [calls EXCEPT ![h] = Idle]

At(h, pc) == calls[h].pc = pc

\* the admin user object that login builds and initializeAuth reads back
AdminUser == [id |-> AdminDemo, role |-> "admin"]

Authenticated(user) ==
    [user |-> user, isAuthenticated |-> TRUE, isLoading |-> FALSE]

\* setAuthState(prev => ({ ...prev, isLoading: true }))
Loading(st) == [st EXCEPT !.isLoading = TRUE]

\* onAuthStateChange: the listener as called by the client library while it
\* signs out (SIGNED_OUT: both storage keys removed, state reset) ...
HeardSignedOut == /\ stored' = NoneStored
                  /\ authState' = SignedOut

\* ... and while it signs user u in (SIGNED_IN: the listener starts its own
\* fetchUserProfile and sets the state when that has come back)
HeardSignedIn(h, pc, u, rememberMe) ==
    calls' = [calls EXCEPT ![h] = [pc |-> pc, user |-> u, rememberMe |-> rememberMe],
                           !["listener"] = [pc |-> "fetch", user |-> u,
                                            rememberMe |-> FALSE]]

\* the listener's fetchUserProfile has come back
listenerFetched(ok) ==
    /\ At("listener", "fetch")
    /\ LET user == fetchUserProfile(calls["listener"].user, session, ok,
                                    profiles, user_roles)
       IN  authState' = SignedIn(authState, user)
    /\ Return("listener")
    /\ UNCHANGED << auth_users, profiles, user_roles, session, ret, stored, closure >>
    /\ UNCHANGED << trackerVars, workers, upstreamVars, first_category, requestVars >>

\* initializeAuth, up to getSession(): a stored admin user is taken as it is
initializeAuthStart ==
    /\ At("initializeAuth", "start")
    /\ IF stored.local \/ stored.session
       THEN /\ authState' = Authenticated(AdminUser)
            /\ Return("initializeAuth")
       ELSE /\ Await("initializeAuth", "getSession", NoUser, FALSE)
            /\ UNCHANGED authState
    /\ UNCHANGED << auth_users, profiles, user_roles, session, ret, stored, closure >>
    /\ UNCHANGED << trackerVars, workers, upstreamVars, first_category, requestVars >>

\* getSession() has come back: with an error, with no session, or with one
initializeAuthSession(ok) ==
    /\ At("initializeAuth", "getSession")
    /\ IF ok /\ session # NoUser
       THEN /\ Await("initializeAuth", "fetch", session, FALSE)
            /\ UNCHANGED authState
       ELSE /\ authState' = NotLoading(authState)
            /\ Return("initializeAuth")
    /\ UNCHANGED << auth_users, profiles, user_roles, session, ret, stored, closure >>
    /\ UNCHANGED << trackerVars, workers, upstreamVars, first_category, requestVars >>

\* fetchUserProfile(session.user.id) has come back
initializeAuthFetched(ok) ==
    /\ At("initializeAuth", "fetch")
    /\ LET user == fetchUserProfile(calls["initializeAuth"].user, session, ok,
                                    profiles, user_roles)
       IN  authState' = IF user # NullUser THEN Authenticated(user)
                        ELSE NotLoading(authState)
    /\ Return("initializeAuth")
    /\ UNCHANGED << auth_users, profiles, user_roles, session, ret, stored, closure >>
    /\ UNCHANGED << trackerVars, workers, upstreamVars, first_category, requestVars >>

\* the page is loaded again: AuthProvider is mounted afresh, what was running
\* is gone; the storages and the Supabase session stay
Reload ==
    /\ authState' = [user |-> NullUser, isAuthenticated |-> FALSE, isLoading |-> TRUE]
    /\ calls' = [h \in Handlers |-> IF h = "initializeAuth" THEN Mounting ELSE Idle]
    /\ closure' = NullUser
    /\ UNCHANGED << auth_users, profiles, user_roles, session, ret, stored >>
    /\ UNCHANGED << trackerVars, workers, upstreamVars, first_category, requestVars >>

\* the components are rendered with the current state; the updateUser they
\* get has this render's authState.user in its closure
Render ==
    /\ closure # authState.user
    /\ closure' = authState.user
    /\ UNCHANGED << auth_users, profiles, user_roles, session, authState, ret,
                    stored, calls >>
    /\ UNCHANGED << trackerVars, workers, upstreamVars, first_category, requestVars >>

\* updateUser(updates), as handed out by the last render; the updates touch
\* no field that is modelled
updateUser ==
    /\ closure # NullUser
    /\ authState' = [authState EXCEPT !.user = closure]
    /\ UNCHANGED << auth_users, profiles, user_roles, session, ret,
                    stored, calls, closure >>
    /\ UNCHANGED << trackerVars, workers, upstreamVars, first_category, requestVars >>

\* variant: the admin user is always put into sessionStorage
StoreAdmin_SessionOnly(rememberMe) == [local |-> FALSE, session |-> TRUE]

\* login, admin path: removeItem on both storages, then setItem on
\* localStorage if credentials.rememberMe, else on sessionStorage
StoreAdmin(rememberMe) == [local |-> rememberMe, session |-> ~ rememberMe]

\* login with the admin credentials, up to await supabase.auth.signOut()
loginAdminStart(rememberMe) ==
    /\ At("login", "idle")
    /\ authState' = Loading(authState)
    /\ Await("login", "signOut", AdminDemo, rememberMe)
    /\ UNCHANGED << auth_users, profiles, user_roles, session, ret, stored, closure >>
    /\ UNCHANGED << trackerVars, workers, upstreamVars, first_category, requestVars >>

\* signOut() has come back (an exception is caught and logged): when it went
\* through, the session is gone and the listener has heard SIGNED_OUT
loginAdminSignedOut(ok) ==
    /\ At("login", "signOut")
    /\ IF ok THEN /\ session' = NoUser
                  /\ HeardSignedOut
             ELSE UNCHANGED << session, stored, authState >>
    /\ Await("login", "store", AdminDemo, calls["login"].rememberMe)
    /\ UNCHANGED << auth_users, profiles, user_roles, ret, closure >>
    /\ UNCHANGED << trackerVars, workers, upstreamVars, first_category, requestVars >>

\* the rest of the admin path: store the admin user, set the state, return true
loginAdminStore ==
    /\ At("login", "store")
    /\ stored' = StoreAdmin(calls["login"].rememberMe)
    /\ authState' = Authenticated(AdminUser)
    /\ Return("login")
    /\ UNCHANGED << auth_users, profiles, user_roles, session, ret, closure >>
    /\ UNCHANGED << trackerVars, workers, upstreamVars, first_category, requestVars >>

\* login of user u, up to await signInWithPassword
loginStart(u) ==
    /\ At("login", "idle")
    /\ authState' = Loading(authState)
    /\ Await("login", "signIn", u, FALSE)
    /\ UNCHANGED << auth_users, profiles, user_roles, session, ret, stored, closure >>
    /\ UNCHANGED << trackerVars, workers, upstreamVars, first_category, requestVars >>

\* signInWithPassword has come back: with an error (return false), or with
\* the user, the listener having heard SIGNED_IN
loginSignedIn(ok) ==
    /\ At("login", "signIn")
    /\ IF ok /\ calls["login"].user \in auth_users
       THEN /\ session' = calls["login"].user
            /\ HeardSignedIn("login", "fetch", calls["login"].user, FALSE)
            /\ UNCHANGED authState
       ELSE /\ authState' = NotLoading(authState)
            /\ Return("login")
            /\ UNCHANGED session
    /\ UNCHANGED << auth_users, profiles, user_roles, ret, stored, closure >>
    /\ UNCHANGED << trackerVars, workers, upstreamVars, first_category, requestVars >>

\* fetchUserProfile has come back: no user, return false; else return true
loginFetched(ok) ==
    /\ At("login", "fetch")
    /\ LET user == fetchUserProfile(calls["login"].user, session, ok,
                                    profiles, user_roles)
       IN  authState' = IF user # NullUser THEN Authenticated(user)
                        ELSE NotLoading(authState)
    /\ Return("login")
    /\ UNCHANGED << auth_users, profiles, user_roles, session, ret, stored, closure >>
    /\ UNCHANGED << trackerVars, workers, upstreamVars, first_category, requestVars >>

\* logout, up to await supabase.auth.signOut()
logoutStart ==
    /\ At("logout", "idle")
    /\ Await("logout", "signOut", NoUser, FALSE)
    /\ UNCHANGED << auth_users, profiles, user_roles, session, authState, ret,
                    stored, closure >>
    /\ UNCHANGED << trackerVars, workers, upstreamVars, first_category, requestVars >>

\* signOut() has come back; its result is not looked at
logoutSignedOut(ok) ==
    /\ At("logout", "signOut")
    /\ IF ok THEN /\ session' = NoUser
                  /\ HeardSignedOut
             ELSE UNCHANGED << session, stored, authState >>
    /\ Await("logout", "finish", NoUser, FALSE)
    /\ UNCHANGED << auth_users, profiles, user_roles, ret, closure >>
    /\ UNCHANGED << trackerVars, workers, upstreamVars, first_category, requestVars >>

\* the rest of logout: remove both storage keys, reset the state
logoutFinish ==
    /\ At("logout", "finish")
    /\ stored' = NoneStored
    /\ authState' = SignedOut
    /\ Return("logout")
    /\ UNCHANGED << auth_users, profiles, user_roles, session, ret, closure >>
    /\ UNCHANGED << trackerVars, workers, upstreamVars, first_category, requestVars >>

\* register for the person u, up to await supabase.auth.signUp; a role that
\* is not allowed ends the call before that
registerStart(u, role) ==
    /\ At("register", "idle")
    /\ IF RoleAllowed(role)
       THEN /\ authState' = Loading(authState)
            /\ Await("register", "signUp", u, FALSE)
       ELSE /\ authState' = NotLoading(authState)
            /\ UNCHANGED calls
    /\ UNCHANGED << auth_users, profiles, user_roles, session, ret, stored, closure >>
    /\ UNCHANGED << trackerVars, workers, upstreamVars, first_category, requestVars >>

\* signUp has come back: with an error, or with the new user (the trigger has
\* run), and then with or without a session
registerSignedUp(ok, hasSession) ==
    /\ At("register", "signUp")
    /\ LET u == calls["register"].user
       IN  IF ok /\ u \notin auth_users
           THEN /\ auth_users' = auth_users \cup {u}
                /\ profiles' = [profiles EXCEPT ![u] = NewUserProfile(NoRole)]
                /\ user_roles' = [user_roles EXCEPT ![u] = NewUserRole(NoRole)]
                /\ IF hasSession
                   THEN /\ session' = u
                        /\ HeardSignedIn("register", "company", u, FALSE)
                   ELSE /\ Await("register", "company", u, FALSE)
                        /\ UNCHANGED session
                /\ UNCHANGED authState
           ELSE /\ authState' = NotLoading(authState)
                /\ Return("register")
                /\ UNCHANGED << auth_users, profiles, user_roles, session >>
    /\ UNCHANGED << ret, stored, closure >>
    /\ UNCHANGED << trackerVars, workers, upstreamVars, first_category, requestVars >>

\* the company row: created, or not (return false)
registerCompany(ok) ==
    /\ At("register", "company")
    /\ IF ok THEN /\ Await("register", "rpc", calls["register"].user, FALSE)
                  /\ UNCHANGED authState
             ELSE /\ authState' = NotLoading(authState)
                  /\ Return("register")
    /\ UNCHANGED << auth_users, profiles, user_roles, session, ret, stored, closure >>
    /\ UNCHANGED << trackerVars, workers, upstreamVars, first_category, requestVars >>

\* Step 3 & 4 have come back: the two functions ran, or only the direct
\* update / insert, which change nothing that is modelled
registerRpc(ok) ==
    /\ At("register", "rpc")
    /\ LET u == calls["register"].user
       IN  IF ok /\ MayExecute(session)
           THEN /\ profiles' = create_profile_for_registration(profiles, u)
                /\ user_roles' =
                       create_user_role_for_registration(user_roles, u, "customer")
           ELSE UNCHANGED << profiles, user_roles >>
    /\ Await("register", "signIn", calls["register"].user, FALSE)
    /\ UNCHANGED << auth_users, session, authState, ret, stored, closure >>
    /\ UNCHANGED << trackerVars, workers, upstreamVars, first_category, requestVars >>

\* Step 5 has come back: no sign-in (return true), or signed in
registerSignedIn(ok) ==
    /\ At("register", "signIn")
    /\ IF ok
       THEN /\ session' = calls["register"].user
            /\ HeardSignedIn("register", "fetch", calls["register"].user, FALSE)
            /\ UNCHANGED authState
       ELSE /\ authState' = NotLoading(authState)
            /\ Return("register")
            /\ UNCHANGED session
    /\ UNCHANGED << auth_users, profiles, user_roles, ret, stored, closure >>
    /\ UNCHANGED << trackerVars, workers, upstreamVars, first_category, requestVars >>

\* Step 6 has come back (the second fetchUserProfile included): return true
registerFetched(ok) ==
    /\ At("register", "fetch")
    /\ LET user == fetchUserProfile(calls["register"].user, session, ok,
                                    profiles, user_roles)
       IN  authState' = IF user # NullUser THEN Authenticated(user)
                        ELSE NotLoading(authState)
    /\ Return("register")
    /\ UNCHANGED << auth_users, profiles, user_roles, session, ret, stored, closure >>
    /\ UNCHANGED << trackerVars, workers, upstreamVars, first_category, requestVars >>

\* the person who uses this browser; the admin pages are reached through the
\* built-in admin login
Visitor == 1

initializeAuthStep ==
    \/ initializeAuthStart
    \/ \E ok \in BOOLEAN : initializeAuthSession(ok)
    \/ \E ok \in BOOLEAN : initializeAuthFetched(ok)

loginRun ==
    \/ \E rememberMe \in BOOLEAN : loginAdminStart(rememberMe)
    \/ \E ok \in BOOLEAN : loginAdminSignedOut(ok)
    \/ loginAdminStore
    \/ loginStart(Visitor)
    \/ \E ok \in BOOLEAN : loginSignedIn(ok)
    \/ \E ok \in BOOLEAN : loginFetched(ok)

logoutRun ==
    \/ logoutStart
    \/ \E ok \in BOOLEAN : logoutSignedOut(ok)
    \/ logoutFinish

registerRun ==
    \/ \E role \in Roles : registerStart(Visitor, role)
    \/ \E ok, hasSession \in BOOLEAN : registerSignedUp(ok, hasSession)
    \/ \E ok \in BOOLEAN : registerCompany(ok)
    \/ \E ok \in BOOLEAN : registerRpc(ok)
    \/ \E ok \in BOOLEAN : registerSignedIn(ok)
    \/ \E ok \in BOOLEAN : registerFetched(ok)

listenerRun == \E ok \in BOOLEAN : listenerFetched(ok)

NextSession ==
    \/ initializeAuthStep
    \/ loginRun
    \/ logoutRun
    \/ registerRun
    \/ listenerRun
    \/ Reload
    \/ Render
    \/ updateUser

SpecSession == Init /\ [][NextSession]_vars

\* what follows an await of initializeAuth, login, register
initializeAuthResume == initializeAuthStep

loginResume ==
    \/ \E ok \in BOOLEAN : loginAdminSignedOut(ok)
    \/ loginAdminStore
    \/ \E ok \in BOOLEAN : loginSignedIn(ok)
    \/ \E ok \in BOOLEAN : loginFetched(ok)

registerResume ==
    \/ \E ok, hasSession \in BOOLEAN : registerSignedUp(ok, hasSession)
    \/ \E ok \in BOOLEAN : registerCompany(ok)
    \/ \E ok \in BOOLEAN : registerRpc(ok)
    \/ \E ok \in BOOLEAN : registerSignedIn(ok)
    \/ \E ok \in BOOLEAN : registerFetched(ok)

\* one page load, in which every backend request comes back: what follows an
\* await is run in the end
NextPage ==
    \/ initializeAuthStep
    \/ loginRun
    \/ logoutRun
    \/ registerRun
    \/ listenerRun

SpecSessionLive ==
    /\ Init
    /\ [][NextPage]_vars
    /\ WF_vars(initializeAuthResume)
    /\ WF_vars(loginResume)
    /\ WF_vars(registerResume)

\* ---------------------------------------------------------------- AdminRequests
\* The page AdminRequests with its requests under way.  A profile is named by
\* the user it belongs to (profiles.user_id is unique); null is NoUser.  Calls
\* of one handler for one row waiting at the same await are followed as one.

\* a call of handleApprove (pc "update") or handleReject (pc "deleteProfile",
\* "deleteRole") for the row profileId, waiting at that await
Request(profileId, pc) == [row |-> profileId, pc |-> pc]

\* finally { setProcessingId(null) }
Finally(profileId, pc) ==
    /\ processingId' = NoUser
    /\ requests' = requests \ {Request(profileId, pc)}

\* a customer signs up meanwhile: handle_new_user() inserts the two rows
signUp(u) ==
    /\ u \notin auth_users
    /\ auth_users' = auth_users \cup {u}
    /\ profiles' = [profiles EXCEPT ![u] = NewUserProfile(NoRole)]
    /\ user_roles' = [user_roles EXCEPT ![u] = NewUserRole(NoRole)]
    /\ UNCHANGED << session, authState, ret >>
    /\ UNCHANGED << trackerVars, workers, upstreamVars, first_category, sessionVars,
                    requestVars >>

\* fetchPendingUsers has its answers: the unapproved profiles of the customers
\* are shown, or the rows stay as they are when a select failed
fetchPendingUsers(ok) ==
    /\ fetching
    /\ fetching' = FALSE
    /\ pendingUsers' =
           IF ok
           THEN { u \in Users : /\ profiles[u].present
                                /\ ~ profiles[u].is_approved
                                /\ user_roles[u] = "customer" }
           ELSE pendingUsers
    /\ UNCHANGED << processingId, requests >>
    /\ UNCHANGED << trackerVars, workers, upstreamVars, authVars, first_category,
                    sessionVars >>

\* the buttons of a row: disabled={processingId === user.id}
Enabled(profileId) == profileId \in pendingUsers /\ processingId # profileId

\* handleApprove up to its await: setProcessingId(profileId), the update is sent
handleApproveStart(profileId) ==
    /\ Enabled(profileId)
    /\ processingId' = profileId
    /\ requests' = requests \cup {Request(profileId, "update")}
    /\ UNCHANGED << pendingUsers, fetching >>
    /\ UNCHANGED << trackerVars, workers, upstreamVars, authVars, first_category,
                    sessionVars >>

\* the update has come back: fetchPendingUsers() unless it failed; finally
handleApproveDone(profileId, ok) ==
    /\ Request(profileId, "update") \in requests
    /\ profiles' = IF ok /\ profiles[profileId].present
                   THEN [profiles EXCEPT ![profileId].is_approved = TRUE]
                   ELSE profiles
    /\ fetching' = (fetching \/ ok)
    /\ Finally(profileId, "update")
    /\ UNCHANGED << auth_users, user_roles, session, authState, ret, pendingUsers >>
    /\ UNCHANGED << trackerVars, workers, upstreamVars, first_category, sessionVars >>

\* handleReject up to its first await: setProcessingId(profileId), the delete
\* of the profile is sent
handleRejectStart(profileId) ==
    /\ Enabled(profileId)
    /\ processingId' = profileId
    /\ requests' = requests \cup {Request(profileId, "deleteProfile")}
    /\ UNCHANGED << pendingUsers, fetching >>
    /\ UNCHANGED << trackerVars, workers, upstreamVars, authVars, first_category,
                    sessionVars >>

\* the delete of the profile has come back: the delete of the role is sent,
\* or the error is thrown; finally
handleRejectProfileDone(profileId, ok) ==
    /\ Request(profileId, "deleteProfile") \in requests
    /\ IF ok
       THEN /\ profiles' = [profiles EXCEPT ![profileId] = NoProfile]
            /\ requests' = (requests \ {Request(profileId, "deleteProfile")})
                               \cup {Request(profileId, "deleteRole")}
            /\ UNCHANGED processingId
       ELSE /\ Finally(profileId, "deleteProfile")
            /\ UNCHANGED profiles
    /\ UNCHANGED << auth_users, user_roles, session, authState, ret, pendingUsers,
                    fetching >>
    /\ UNCHANGED << trackerVars, workers, upstreamVars, first_category, sessionVars >>

\* the delete of the role has come back: fetchPendingUsers() unless it
\* failed; finally
handleRejectRoleDone(profileId, ok) ==
    /\ Request(profileId, "deleteRole") \in requests
    /\ user_roles' = IF ok THEN [user_roles EXCEPT ![profileId] = NoRole]
                     ELSE user_roles
    /\ fetching' = (fetching \/ ok)
    /\ Finally(profileId, "deleteRole")
    /\ UNCHANGED << auth_users, profiles, session, authState, ret, pendingUsers >>
    /\ UNCHANGED << trackerVars, workers, upstreamVars, first_category, sessionVars >>

handleApproveRun ==
    \E profileId \in Users :
        \/ handleApproveStart(profileId)
        \/ \E ok \in BOOLEAN : handleApproveDone(profileId, ok)

handleRejectRun ==
    \E profileId \in Users :
        \/ handleRejectStart(profileId)
        \/ \E ok \in BOOLEAN : handleRejectProfileDone(profileId, ok)
        \/ \E ok \in BOOLEAN : handleRejectRoleDone(profileId, ok)

NextRequests ==
    \/ \E u \in Users : signUp(u)
    \/ \E ok \in BOOLEAN : fetchPendingUsers(ok)
    \/ handleApproveRun
    \/ handleRejectRun

SpecRequests == Init /\ [][NextRequests]_vars

\* ---------------------------------------------------------------- claims
\* a classification result is present when it carries a label; it is valid when
\* its category is one of the two recognised ones and its confidence lies in
\* [0,1]
Present(r) == Truthy(r.person_gender)
ValidCategory(r) == r.gender_idx \in {0, 1}
ValidConfidence(c) == c >= 0 /\ c <= ConfScale
\* the classification result of the most recent call
LastResult == [person_gender |-> last.person_gender, gender_idx |-> last.gender_idx]
LastPresent == Present(LastResult)

\* C1: at-most-once counting.  For every person ID the counting branch has run
\* 0 or 1 times, and an observe call for an ID that was already counted leaves
\* male_count, female_count and count_p as they were, whatever it carried.
AtMostOnceCounting ==
    /\ \A i \in Identities : credits[i] \in {0, 1}
    /\ (last.op = "observe" /\ last.wasCounted) => counters = last.preCounters

\* a counted ID has been observed again with a classification result
AtMostOnceCounting_Witness ==
    /\ last.op = "observe"
    /\ last.wasCounted
    /\ LastPresent
    /\ credits[last.id] = 1
    /\ count_p = 1

\* C2: counted_person_ids only grows, so isCounted(i) stays true once it is
\* true, through every later observe and cleanup.
CountedSetOnlyGrows ==
    [][ \A i \in Identities : isCounted(i) => isCounted(i)' ]_vars

\* a cleanup has retired the dict entry of a counted ID, which is still counted
CountedSetOnlyGrows_Witness ==
    /\ last.op = "reconcileActive"
    /\ \E i \in last.absent : isCounted(i) /\ i \notin DOMAIN tracked_people_gender

\* C3: the total count equals the sum of the per-category counts, for every
\* classification result the counting branch accepts.
TotalIsSumOfCategories ==
    count_p = male_count + female_count

\* C4: after the cleanup with the set S of current IDs, every key of
\* tracked_people_gender is in S; with S empty the dict is empty.
KeysWithinCurrent ==
    last.op = "reconcileActive" =>
        /\ DOMAIN tracked_people_gender \subseteq last.current
        /\ (last.current = {} => tracked_people_gender = << >>)

\* a cleanup with the empty set has retired every entry of a non-empty dict
KeysWithinCurrent_Witness ==
    /\ last.op = "reconcileActive"
    /\ last.current = {}
    /\ Cardinality(last.absent) = NumIds
    /\ tracked_people_gender = << >>

\* C5: the cleanup leaves counted_person_ids and the three counts as they were.
CleanupKeepsCounts ==
    last.op = "reconcileActive" =>
        /\ counted_person_ids = last.preCounted
        /\ counters = last.preCounters

\* a cleanup has removed entries while people were counted
CleanupKeepsCounts_Witness ==
    /\ last.op = "reconcileActive"
    /\ last.absent # {}
    /\ last.current # {}
    /\ count_p = NumIds

\* C6: the crediting step.  observe with a present, valid result for an ID not
\* yet counted adds 1 to the count of the result's category and to no other
\* category count, puts the ID into counted_person_ids, and leaves a dict entry
\* with the result's label and confidence and counted = True.
CreditingStep ==
    [][ (last'.op = "observe" /\ ~ last'.wasCounted) =>
        \A c \in Confidences :
          ( /\ Observe(last'.id, LastResult', c)
            /\ Present(LastResult') /\ ValidCategory(LastResult')
            /\ ValidConfidence(c)
            /\ ~ isCounted(last'.id) )
          =>
          ( /\ male_count' = male_count + (IF last'.person_gender = "MALE" THEN 1 ELSE 0)
            /\ female_count' = female_count + (IF last'.person_gender = "FEMALE" THEN 1 ELSE 0)
            /\ counted_person_ids' = counted_person_ids \cup {last'.id}
            /\ last'.id \in DOMAIN tracked_people_gender'
            /\ tracked_people_gender'[last'.id].gender = last'.person_gender
            /\ tracked_people_gender'[last'.id].confidence = c
            /\ tracked_people_gender'[last'.id].counted = TRUE ) ]_vars

\* a second person has just been credited as FEMALE after a MALE
CreditingStep_Witness ==
    /\ last.op = "observe"
    /\ ~ last.wasCounted
    /\ last.person_gender = "FEMALE"
    /\ male_count = 1
    /\ female_count = 1
    /\ isCounted(last.id)
    /\ last.id \in DOMAIN tracked_people_gender

\* C7: observe with a present result for an ID already counted changes no
\* count, and afterwards the ID's dict entry holds the label and confidence of
\* that result, with counted still True.
ReobservationUpdatesRecord ==
    [][ \A i \in Identities, r \in ClassifierResults, c \in Confidences :
          ( Observe(i, r, c) /\ Present(r) /\ isCounted(i) )
          =>
          ( /\ counters' = counters
            /\ i \in DOMAIN tracked_people_gender'
            /\ tracked_people_gender'[i].gender = r.person_gender
            /\ tracked_people_gender'[i].confidence = Float(c)
            /\ tracked_people_gender'[i].counted = TRUE ) ]_vars

\* C8: leave and return.  After a counted ID lost its dict entry to the cleanup,
\* an observe with a present result leaves the counts unchanged and the ID has
\* a dict entry again, with counted = True.
LeaveAndReturn ==
    ( /\ last.op = "observe"
      /\ LastPresent
      /\ last.wasCounted
      /\ ~ last.hadRecord )
    =>
    ( /\ counters = last.preCounters
      /\ last.id \in DOMAIN tracked_people_gender
      /\ tracked_people_gender[last.id].counted = TRUE )

\* C9: observe without a classification result changes nothing: not the
\* counted set, not a count, not the dict (no entry changed, none created).
AbsentResultIsNoOp ==
    [][ (last'.op = "observe" /\ ~ Present(LastResult')) => UNCHANGED tracker ]_vars

\* an ID that was never counted has been observed without a result, while
\* another ID has a dict entry
AbsentResultIsNoOp_Witness ==
    /\ last.op = "observe"
    /\ ~ LastPresent
    /\ ~ isCounted(last.id)
    /\ last.id \notin DOMAIN tracked_people_gender
    /\ tracked_people_gender # << >>

\* C10: observe with a malformed result (unrecognised category, or confidence
\* outside [0,1]) is rejected and leaves the counted set, the counts and the
\* dict exactly as they were.
MalformedResultRejected ==
    [][ \A i \in Identities, r \in ClassifierResults, c \in Confidences :
          ( /\ Observe(i, r, c)
            /\ Present(r)
            /\ ~ (ValidCategory(r) /\ ValidConfidence(c)) )
          => UNCHANGED tracker ]_vars

\* C12: the counts are monotone.  No count ever decreases; a count changes only
\* in a step in which some ID enters counted_person_ids, and in that step
\* exactly one of male_count / female_count and the total count_p each grow by
\* exactly 1.
CountersMonotone ==
    [][ /\ male_count' >= male_count
        /\ female_count' >= female_count
        /\ count_p' >= count_p
        /\ (counters' # counters) =>
             /\ \E i \in Identities : ~ isCounted(i) /\ isCounted(i)'
             /\ count_p' = count_p + 1
             /\ \/ (male_count' = male_count + 1 /\ female_count' = female_count)
                \/ (male_count' = male_count /\ female_count' = female_count + 1) ]_vars

\* C13: status and isCounted follow membership in counted_person_ids and nothing
\* else: an ID is reported counted exactly when it is in the set, that is
\* exactly when the counting branch has run for it, whether or not it has a
\* dict entry; an ID never seen is reported uncounted.
StatusFollowsCountedSet ==
    \A i \in Identities :
        /\ (status(i) = "counted") = isCounted(i)
        /\ isCounted(i) = (i \in counted_person_ids)
        /\ (credits[i] = 0) => (status(i) = "uncounted" /\ ~ isCounted(i))
        /\ (credits[i] > 0) => (status(i) = "counted" /\ isCounted(i))

\* one ID is counted and has lost its dict entry, another was never seen
StatusFollowsCountedSet_Witness ==
    /\ last.op = "reconcileActive"
    /\ \E i \in Identities :
          /\ credits[i] = 1
          /\ i \notin DOMAIN tracked_people_gender
          /\ status(i) = "counted"
    /\ \E j \in Identities : credits[j] = 0 /\ status(j) = "uncounted"

NoIdentityMerging ==
    (last.op = "observe" /\ LastPresent /\ ~ last.wasCounted) =>
        /\ isCounted(last.id)
        /\ credits[last.id] = 1
        /\ count_p = last.preCounters[3] + 1

\* the person counted under one ID has just been counted again under a new ID
NoIdentityMerging_Witness ==
    /\ last.op = "observe"
    /\ LastPresent
    /\ ~ last.wasCounted
    /\ subject_id = last.id
    /\ Cardinality(subject_log.ids) = 2
    /\ subject_log.credits = 2

Returned(op) == ret = NoRet /\ ret'.op = op

\* user u is a customer whose profile row has is_approved = false
UnapprovedCustomer(u) ==
    /\ u \in Users
    /\ user_roles[u] = "customer"
    /\ profiles[u].present
    /\ ~ profiles[u].is_approved

\* C17: new customers are unapproved by default.  When register has returned
\* true for a customer, the profile of the new user has is_approved = false;
\* registration itself never approves.
RegisteredUnapproved ==
    [][ (Returned("register") /\ ret'.result)
          => ~ profiles'[ret'.user].is_approved ]_vars

\* C18: approval gate.  login by a customer whose profile has
\* is_approved = false returns false and does not leave that customer
\* authenticated.
ApprovalGate ==
    [][ (Returned("login") /\ UnapprovedCustomer(ret'.user))
          => /\ ~ ret'.result
             /\ ~ (authState'.isAuthenticated
                     /\ authState'.user.id = ret'.user) ]_vars

\* the requests a signed-in user can send with their own session
ApiOps == {"rpc_profile", "rpc_role", "update_profile", "update_role"}

\* C19: row-level isolation.  No request of a signed-in non-admin user creates
\* or changes a profiles or user_roles row of another user_id.
RowIsolation ==
    [][ (\E op \in ApiOps : Returned(op)) /\ user_roles[session] # "admin"
          => \A u \in Users \ {session} :
                 /\ profiles'[u] = profiles[u]
                 /\ user_roles'[u] = user_roles[u] ]_vars

\* C20: only customer registration is allowed.  register with a role other
\* than 'customer' returns false with isLoading = false and sends nothing to
\* the backend (no sign-up, no function call, no table write); every register
\* that returns true leaves the new user with the role 'customer'.
OnlyCustomerRegistration ==
    [][ Returned("register")
          => /\ ret'.role # "customer"
                  => /\ ~ ret'.result
                     /\ ~ authState'.isLoading
                     /\ ret'.calls = {}
                     /\ UNCHANGED << auth_users, profiles, user_roles, session >>
             /\ ret'.result
                  => /\ ret'.user \in auth_users'
                     /\ user_roles'[ret'.user] = "customer" ]_vars

\* register with the role 'admin' has just been turned down, while a user
\* registered earlier holds the role 'customer'
OnlyCustomerRegistration_Witness ==
    /\ ret.op = "register"
    /\ ret.role = "admin"
    /\ ~ ret.result
    /\ ret.calls = {}
    /\ ~ authState.isLoading
    /\ \E v \in auth_users : v # ret.user /\ user_roles[v] = "customer"

\* C21: reconcileActive(S) deletes exactly the absent keys.  After the cleanup
\* with the set S the dict is the dict as it was restricted to S: the entries
\* of the IDs in S are kept with every field as it was, nothing is added.
CleanupIsRestriction ==
    [][ last'.op = "reconcileActive"
          => tracked_people_gender' =
                 [ x \in (DOMAIN tracked_people_gender) \cap last'.current |->
                       tracked_people_gender[x] ] ]_vars

\* a cleanup has removed the entry of one ID and kept the entry of another
CleanupIsRestriction_Witness ==
    /\ last.op = "reconcileActive"
    /\ last.absent # {}
    /\ DOMAIN tracked_people_gender # {}

\* C23: every key of tracked_people_gender is in counted_person_ids and every
\* entry has counted = True.
RecordsOnlyForCounted ==
    \A i \in DOMAIN tracked_people_gender :
        /\ i \in counted_person_ids
        /\ tracked_people_gender[i].counted = TRUE

\* one ID is counted and has an entry, another is counted and has lost its
\* entry to the cleanup
RecordsOnlyForCounted_Witness ==
    /\ DOMAIN tracked_people_gender # {}
    /\ counted_person_ids \ DOMAIN tracked_people_gender # {}

\* C24: the total count is the number of IDs in the counted set.
TotalIsCountedSetSize ==
    count_p = Cardinality(counted_person_ids)

\* two IDs are counted, and the one just observed was counted before
TotalIsCountedSetSize_Witness ==
    /\ count_p = 2
    /\ Cardinality(counted_person_ids) = 2
    /\ last.op = "observe"
    /\ LastPresent
    /\ last.wasCounted

\* the IDs in the counted set whose first usable result carried the class
\* index idx
FirstSeenAs(idx) ==
    { i \in counted_person_ids : first_category[i] = idx }

\* C25: an ID is credited to the category of its first usable classification.
\* male_count is the number of counted IDs whose first usable result was MALE
\* (index 1), female_count the number whose first usable result was FEMALE
\* (index 0); a later result of another category moves nothing.
CreditedToFirstCategory ==
    /\ male_count = Cardinality(FirstSeenAs(1))
    /\ female_count = Cardinality(FirstSeenAs(0))

\* an ID counted as MALE has just been observed as FEMALE, and the counts
\* still show one man and no woman
CreditedToFirstCategory_Witness ==
    /\ last.op = "observe"
    /\ last.wasCounted
    /\ last.gender_idx = 0
    /\ first_category[last.id] = 1
    /\ male_count = 1
    /\ female_count = 0

\* only handleReject deletes a user_roles row: a registered user without one
\* has been rejected
Rejected(u) == u \in auth_users /\ user_roles[u] = NoRole

\* C22: rejected users have no access.  Once handleReject has deleted the
\* profile of a user, no login of that user returns true or leaves that user
\* authenticated.
RejectedStayOut ==
    [][ (Returned("login") /\ Rejected(ret'.user))
          => /\ ~ ret'.result
             /\ ~ (authState'.isAuthenticated
                     /\ authState'.user.id = ret'.user) ]_vars

\* C26: isAuthenticated is true if and only if user is non-null, in every
\* state of AuthProvider.
AuthenticatedIffUser ==
    authState.isAuthenticated <=> (authState.user # NullUser)

LoadingHandlers == {"initializeAuth", "login", "register"}

\* C28: isLoading always clears.  Every run of initializeAuth, login and
\* register comes to its end, on every path, and isLoading is false then.
IsLoadingClears ==
    \A h \in LoadingHandlers :
        (calls[h].pc # "idle") ~> (calls[h].pc = "idle" /\ ~ authState.isLoading)

\* register has ended on an error path: the user exists, nobody is signed in
\* and nothing is loading
IsLoadingClears_Witness ==
    /\ \A h \in LoadingHandlers : At(h, "idle")
    /\ Visitor \in auth_users
    /\ session = NoUser
    /\ ~ authState.isAuthenticated
    /\ ~ authState.isLoading

\* what initializeAuth turns into an authenticated state on the next page load
Restorable ==
    \/ stored.local
    \/ stored.session
    \/ (session # NoUser /\ profiles[session].present)

\* C30: when logout has completed the state is { user: null, isAuthenticated:
\* false, isLoading: false }, neither storage holds datamorphosis_admin_user,
\* and there is nothing a following initializeAuth could restore.
LogoutLeavesNothing ==
    [][ logoutFinish
          => /\ authState' = SignedOut
             /\ stored' = NoneStored
             /\ ~ Restorable' ]_vars

\* the rows with an approve or reject request under way
InFlight == { r.row : r \in requests }

\* C29: while an approve or reject request for profile p is under way in
\* AdminRequests, processingId equals p, so the buttons of p stay disabled.
ProcessingIdHoldsRow ==
    \A p \in InFlight : processingId = p

====
